---------------------------- MODULE Spec2Model ----------------------------
(***************************************************************************)
(* Model of src/simulate_logging.ts: generateSummary calls processPdf for  *)
(* a manifest file; processPdf reads the PDF, base64-encodes it, exports   *)
(* the root span's identifier (a promise), requests a chat completion,     *)
(* logs the summary on the root span and then runs logSystemPrompt and     *)
(* logUserPrompt, each of which opens a child span, awaits the exported    *)
(* identifier, sets the span's attributes and logs its payload.            *)
(*                                                                         *)
(* JavaScript runs the code between two awaits without interruption, so    *)
(* each action is one such stretch.  The file system, the completion      *)
(* service and the resolution of export() are the environment.             *)
(***************************************************************************)
EXTENDS Naturals, Sequences, FiniteSets

VARIABLES
    todo,          \* the manifest indices generateSummary hands to processPdf
    disk,          \* disk[f]: the file pdfs/<filename of f> as it is now
    diskChanges,   \* how many times another process has rewritten a file
    gs,            \* generateSummary: "init", "awaiting", "done", "escaped"
    console,       \* console.log / console.warn / console.error lines, in order
    spans,         \* every span created through wrapTraced, in creation order
    pc,            \* processPdf(f): where the invocation for f is suspended
    pdfData,       \* processPdf: const pdfData (line 59)
    base64String,  \* processPdf: const base64String (line 60)
    rootSpan,      \* processPdf: const rootSpan (line 63), a span id, 0 if unset
    rootSpanSlug,  \* processPdf: const rootSpanSlug (line 65), the promise
    request,       \* processPdf: the argument of chat.completions.create
    completion,    \* processPdf: what the completion call settled with
    err,           \* the error processPdf(f) rejected with
    sysPc,         \* logSystemPrompt's traced callback: none/await_slug/done
    userPc,        \* logUserPrompt's traced callback: none/await_slug/done/threw
    sysSpan,       \* logSystemPrompt: const span (line 121), a span id
    userSpan,      \* logUserPrompt: const span (line 142), a span id
    ops,           \* history: the operations processPdf(f) has performed, in order
    reads          \* history: the file as it was on disk at each read

vars == <<todo, disk, diskChanges, gs, console, spans, pc, pdfData, base64String,
          rootSpan, rootSpanSlug, request, completion, err, sysPc, userPc,
          sysSpan, userSpan, ops, reads>>

---------------------------------------------------------------------------
(* Bounds of the model. *)

\* Longest file, in bytes.
MaxLen == 2

\* Number of manifest entries handed to processPdf by the loop of lines 182-184.
NFiles == 2

\* Number of times the environment rewrites or removes a file during a run.
MaxDiskChanges == 1

---------------------------------------------------------------------------
(* Program constants. *)

SYSTEM_PROMPT == "You are a financial analyst specializing in earnings call analysis. ..."

MAX_TOKENS == 500

pdfFiles ==
    << [filename |-> "META-Q4-2024-Earnings-Call-Transcript.pdf",
        url |-> "https://s21.q4cdn.com/399680738/files/doc_financials/2024/q4/META-Q4-2024-Earnings-Call-Transcript.pdf"],
       [filename |-> "walmart-q4-fy25-earnings-call-transcript.pdf",
        url |-> "https://corporate.walmart.com/content/dam/corporate/documents/newsroom/2025/02/20/walmart-releases-q4-fy25-earnings/q4-fy25-earnings-call-transcript.pdf"],
       [filename |-> "Citi-4Q24-Earnings-Transcript.pdf",
        url |-> "https://www.citigroup.com/rcs/citigpa/storage/public/Earnings/Q42024/4Q24-Earnings-Transcript.pdf"],
       [filename |-> "jpmc-4q24-earnings-transcript.pdf",
        url |-> "https://www.jpmorganchase.com/content/dam/jpmc/jpmorgan-chase-and-co/investor-relations/documents/quarterly-earnings/2024/4th-quarter/4q24-earnings-transcript.pdf"],
       [filename |-> "adobe-a4t3greafe.pdf",
        url |-> "https://www.adobe.com/cc-shared/assets/investor-relations/pdfs/21305202/a4t3greafe.pdf"],
       [filename |-> "Qualcomm_Q1FY25EC_Transcript_2-5-24.pdf",
        url |-> "https://s204.q4cdn.com/645488518/files/doc_events/2025/Feb/05/QCOM_Q1FY25EC_Transcript_2-5-24.pdf"],
       [filename |-> "autodesk-q4-2025.pdf",
        url |-> "https://investors.autodesk.com/static-files/19993aff-b8f9-4d6a-9d6d-84062c13b4f8"],
       [filename |-> "homedepot-4q24-transcript.pdf",
        url |-> "https://ir.homedepot.com/~/media/Files/H/HomeDepot-IR/documents/hd-4q24-transcript.pdf"] >>

\* getPdfFiles(): the manifest entry with the path the file is read from.
getPdfFiles(f) ==
    [filename |-> pdfFiles[f].filename,
     path     |-> <<"cwd", "pdfs", pdfFiles[f].filename>>,
     url      |-> pdfFiles[f].url]

userPrompt == "Please analyze this earnings call transcript"

---------------------------------------------------------------------------
(* The environment's values. *)

\* Byte values the modelled files are made of: '%' (the first byte of a PDF) and 0xFF.
Bytes == {37, 255}

RECURSIVE SeqsUpTo(_)
SeqsUpTo(n) ==
    IF n = 0 THEN {<<>>}
    ELSE LET shorter == SeqsUpTo(n - 1)
         IN  shorter \cup {Append(s, b) : s \in {x \in shorter : Len(x) = n - 1}, b \in Bytes}

\* A file on disk: readable with some bytes, absent (ENOENT) or unreadable (EIO).
FileStates ==
    {[status |-> "ok", bytes |-> b] : b \in SeqsUpTo(MaxLen)}
        \cup {[status |-> "ENOENT", bytes |-> <<>>], [status |-> "EIO", bytes |-> <<>>]}

\* What chat.completions.create settles with: a completion whose first choice
\* holds text, holds the empty string, holds null, or is missing; or a rejection,
\* with or without err.response.data.
Settlements ==
    {[kind |-> "content", text |-> "- Revenue beat.\n- Guidance raised.", response |-> FALSE],
     [kind |-> "content", text |-> "", response |-> FALSE],
     [kind |-> "null", text |-> "", response |-> FALSE],
     [kind |-> "nochoice", text |-> "", response |-> FALSE],
     [kind |-> "throw", text |-> "", response |-> FALSE],
     [kind |-> "throw", text |-> "", response |-> TRUE]}

NoSettlement == [kind |-> "pending", text |-> "", response |-> FALSE]

NoError == [kind |-> "none", response |-> FALSE]

---------------------------------------------------------------------------
(* Buffer.toString('base64') (line 60): standard base64, '=' padded, no line *)
(* wrapping.  The result is the sequence of its characters.                  *)

Base64Alphabet ==
    << "A","B","C","D","E","F","G","H","I","J","K","L","M","N","O","P",
       "Q","R","S","T","U","V","W","X","Y","Z","a","b","c","d","e","f",
       "g","h","i","j","k","l","m","n","o","p","q","r","s","t","u","v",
       "w","x","y","z","0","1","2","3","4","5","6","7","8","9","+","/" >>

Base64Char(sextet) == Base64Alphabet[sextet + 1]

RECURSIVE Base64NoPadding(_)
\* The encoder with the '=' padding of the last group left out.
Base64NoPadding(b) ==
    IF Len(b) = 0 THEN <<>>
    ELSE IF Len(b) = 1 THEN
        << Base64Char(b[1] \div 4), Base64Char((b[1] % 4) * 16) >>
    ELSE IF Len(b) = 2 THEN
        << Base64Char(b[1] \div 4),
           Base64Char((b[1] % 4) * 16 + b[2] \div 16),
           Base64Char((b[2] % 16) * 4) >>
    ELSE
        << Base64Char(b[1] \div 4),
           Base64Char((b[1] % 4) * 16 + b[2] \div 16),
           Base64Char((b[2] % 16) * 4 + b[3] \div 64),
           Base64Char(b[3] % 64) >> \o Base64NoPadding(SubSeq(b, 4, Len(b)))

RECURSIVE Base64(_)
Base64(b) ==
    IF Len(b) = 0 THEN <<>>
    ELSE IF Len(b) = 1 THEN
        << Base64Char(b[1] \div 4), Base64Char((b[1] % 4) * 16), "=", "=" >>
    ELSE IF Len(b) = 2 THEN
        << Base64Char(b[1] \div 4),
           Base64Char((b[1] % 4) * 16 + b[2] \div 16),
           Base64Char((b[2] % 16) * 4),
           "=" >>
    ELSE
        << Base64Char(b[1] \div 4),
           Base64Char((b[1] % 4) * 16 + b[2] \div 16),
           Base64Char((b[2] % 16) * 4 + b[3] \div 64),
           Base64Char(b[3] % 64) >> \o Base64(SubSeq(b, 4, Len(b)))

\* `data:application/pdf;base64,${base64String}` (line 82).
DataUrl(b64) == <<"data:application/pdf;base64,">> \o b64

---------------------------------------------------------------------------
(* Spans.  wrapTraced starts a span when the wrapped function is called and *)
(* ends it when the function returns or throws; currentSpan() is that span. *)

NoParent == [kind |-> "none", id |-> 0]

\* The name a span carries until setAttributes names it.
UnnamedSpan == ""

\* A span as wrapTraced starts it: owner and role record which invocation and
\* which wrapped function started it.
StartSpan(id, owner, role) ==
    [id |-> id, owner |-> owner, role |-> role,
     name |-> UnnamedSpan, type |-> "", parent |-> NoParent,
     input |-> <<>>, output |-> <<>>, metadata |-> <<>>,
     logs |-> 0, ended |-> FALSE]

\* The id the next span gets.
NextSpanId == Len(spans) + 1

\* span.end(), done by wrapTraced when the wrapped function settles.
EndSpan(ss, id) == [ss EXCEPT ![id].ended = TRUE]

\* The promise export() returns, and the string it resolves to.
PendingSlug(id) == [state |-> "pending", id |-> id]
ResolvedSlug(id) == [state |-> "resolved", id |-> id]
NoSlug == [state |-> "none", id |-> 0]

\* A link built from the promise object itself: rootSpan.toString() with no await.
SlugToStringOfHandle(p) == [kind |-> "promise", id |-> p.id]

\* (await rootSpan).toString() (lines 125, 146): the identifier string once the
\* promise has resolved; the string form of the promise object itself otherwise.
SlugToString(p) ==
    IF p.state = "resolved" THEN [kind |-> "slug", id |-> p.id]
    ELSE [kind |-> "promise", id |-> p.id]

---------------------------------------------------------------------------
(* Helpers of the actions. *)

Line(level, text, arg) == [level |-> level, text |-> text, arg |-> arg]

\* A read that gives an empty buffer for a file it cannot read, and never throws.
ReadFileSyncLenient(f) == [ok |-> TRUE, error |-> "ok", data |-> disk[f].bytes]

\* fs.readFileSync(path) (lines 59, 151): the bytes, or the error it throws.
ReadFileSync(f) ==
    [ok |-> disk[f].status = "ok", error |-> disk[f].status, data |-> disk[f].bytes]

\* History only: what the file system held when the read was made.
ReadEvent(f) == IF disk[f].status = "ok" THEN "read_ok" ELSE "read_fail"

\* completion.choices[0]?.message?.content (line 95).
SummaryOf(c) == [defined |-> c.kind = "content", text |-> c.text]

\* A test for undefined and null only (summary == null), which lets "" through.
FalsyNullish(s) == ~s.defined

\* !summary (line 98): undefined, null and the empty string are all falsy.
Falsy(s) == ~s.defined \/ s.text = ""

\* A slug kept in one place shared by all invocations: the promise exported last.
SlugForShared(f) ==
    LET exported == {g \in todo : rootSpan[g] # 0}
        last == CHOOSE g \in exported : \A h \in exported : rootSpan[h] <= rootSpan[g]
    IN  rootSpanSlug[last]

\* The rootSpan argument of logSystemPrompt and logUserPrompt (lines 111, 114):
\* the promise held in the calling invocation's own rootSpanSlug.
SlugFor(f) == rootSpanSlug[f]

\* A callback that goes on without awaiting the promise.
AwaitSlugSkipped(f) == TRUE

\* await rootSpan (lines 125, 146): the callback goes on once the promise has
\* resolved.
AwaitSlug(f) == SlugFor(f).state = "resolved"

\* A processPdf that goes on without awaiting logSystemPrompt.
AwaitSystemPromptSkipped(f) == TRUE

\* await systemSpan() and await logSystemPrompt(...) (lines 136, 111): processPdf
\* goes on once the system_prompt callback has finished.
AwaitSystemPrompt(f) == sysPc[f] = "done"

\* The argument of client.chat.completions.create (lines 68-93).
CompletionRequest(f, b64) ==
    [model |-> "gpt-4o", system |-> SYSTEM_PROMPT,
     filename |-> getPdfFiles(f).filename, file_data |-> DataUrl(b64),
     text |-> userPrompt, max_tokens |-> MAX_TOKENS]

\* new Attachment({data, filename, contentType}) (lines 153-157).
Attachment(data, filename) ==
    [data |-> data, filename |-> filename, contentType |-> "application/pdf"]

\* A catch block that logs the error and leaves its response payload out.
CatchLinesNoPayload(e) == <<Line("error", "Error in main:", e.kind)>>

\* The catch block of generateSummary (lines 186-191).
CatchLines(e) ==
    <<Line("error", "Error in main:", e.kind)>>
        \o (IF e.response THEN <<Line("error", "Response data:", e.kind)>> ELSE <<>>)

---------------------------------------------------------------------------
(* Initial states. *)

InitLocals ==
    /\ diskChanges = 0
    /\ gs = "init"
    /\ console = <<>>
    /\ spans = <<>>
    /\ pc = [f \in todo |-> "idle"]
    /\ pdfData = [f \in todo |-> <<>>]
    /\ base64String = [f \in todo |-> <<>>]
    /\ rootSpan = [f \in todo |-> 0]
    /\ rootSpanSlug = [f \in todo |-> NoSlug]
    /\ request = [f \in todo |-> <<>>]
    /\ completion = [f \in todo |-> NoSettlement]
    /\ err = [f \in todo |-> NoError]
    /\ sysPc = [f \in todo |-> "none"]
    /\ userPc = [f \in todo |-> "none"]
    /\ sysSpan = [f \in todo |-> 0]
    /\ userSpan = [f \in todo |-> 0]
    /\ ops = [f \in todo |-> <<>>]
    /\ reads = [f \in todo |-> <<>>]

\* The program as written: only pdfFiles[0] is processed (line 185).
Init ==
    /\ todo = {1}
    /\ disk \in [todo -> FileStates]
    /\ InitLocals

---------------------------------------------------------------------------
(* processPdf *)

\* Lines 55-93: wrapTraced starts the root span; the file is read and encoded,
\* the span named and exported, and the completion requested.  A failed read
\* throws out of processPdf.
processPdf_Start(f) ==
    /\ gs = "awaiting"
    /\ pc[f] = "idle"
    /\ LET id   == NextSpanId
           file == ReadFileSync(f)
           root == StartSpan(id, f, "root")
           b64  == Base64(file.data)
       IN  /\ console' = Append(console, Line("log", "Processing", getPdfFiles(f).filename))
           /\ reads' = [reads EXCEPT ![f] = Append(@, disk[f])]
           /\ IF ~file.ok
              THEN /\ spans' = Append(spans, [root EXCEPT !.ended = TRUE])
                   /\ pc' = [pc EXCEPT ![f] = "threw"]
                   /\ err' = [err EXCEPT ![f] = [kind |-> file.error, response |-> FALSE]]
                   /\ ops' = [ops EXCEPT ![f] = @ \o <<"root_span", ReadEvent(f)>>]
                   /\ UNCHANGED <<pdfData, base64String, rootSpan, rootSpanSlug, request>>
              ELSE /\ spans' = Append(spans, [root EXCEPT !.name = getPdfFiles(f).filename])
                   /\ pdfData' = [pdfData EXCEPT ![f] = file.data]
                   /\ base64String' = [base64String EXCEPT ![f] = b64]
                   /\ rootSpan' = [rootSpan EXCEPT ![f] = id]
                   /\ rootSpanSlug' = [rootSpanSlug EXCEPT ![f] = PendingSlug(id)]
                   /\ request' = [request EXCEPT ![f] = <<CompletionRequest(f, b64)>>]
                   /\ pc' = [pc EXCEPT ![f] = "await_completion"]
                   /\ ops' = [ops EXCEPT ![f] =
                                @ \o <<"root_span", ReadEvent(f), "root_name", "export", "request">>]
                   /\ UNCHANGED err
    /\ UNCHANGED <<todo, disk, diskChanges, gs, completion, sysPc, userPc, sysSpan, userSpan>>

\* The promise returned by export() (line 65) resolves, at a time of the SDK's
\* choosing.
export_Resolves(f) ==
    /\ rootSpanSlug[f].state = "pending"
    /\ rootSpanSlug' = [rootSpanSlug EXCEPT ![f] = ResolvedSlug(@.id)]
    /\ UNCHANGED <<todo, disk, diskChanges, gs, console, spans, pc, pdfData, base64String,
                   rootSpan, request, completion, err, sysPc, userPc, sysSpan, userSpan,
                   ops, reads>>

\* A processPdf that issues the request again when the completion call rejects.
processPdf_CompletionRejectedRetry(f, c) ==
    /\ c.kind = "throw"
    /\ completion' = [completion EXCEPT ![f] = c]
    /\ ops' = [ops EXCEPT ![f] = @ \o <<"completion_rejected", "request">>]
    /\ UNCHANGED <<console, spans, pc, err, sysPc, sysSpan>>

\* The completion call rejects (lines 68-93): nothing catches it in processPdf, so
\* the root span ends and processPdf rejects with the error.
processPdf_CompletionRejected(f, c) ==
    /\ c.kind = "throw"
    /\ completion' = [completion EXCEPT ![f] = c]
    /\ spans' = EndSpan(spans, rootSpan[f])
    /\ pc' = [pc EXCEPT ![f] = "threw"]
    /\ err' = [err EXCEPT ![f] = [kind |-> "upstream", response |-> c.response]]
    /\ ops' = [ops EXCEPT ![f] = Append(@, "completion_rejected")]
    /\ UNCHANGED <<console, sysPc, sysSpan>>

\* Lines 95-101: no summary, so warn and return.
processPdf_NoSummary(f, c) ==
    /\ c.kind # "throw"
    /\ Falsy(SummaryOf(c))
    /\ completion' = [completion EXCEPT ![f] = c]
    /\ console' = Append(console, Line("warn", "No summary generated", getPdfFiles(f).filename))
    /\ spans' = EndSpan(spans, rootSpan[f])
    /\ pc' = [pc EXCEPT ![f] = "returned"]
    /\ ops' = [ops EXCEPT ![f] = @ \o <<"completion_resolved", "warn", "return">>]
    /\ UNCHANGED <<err, sysPc, sysSpan>>

\* Lines 102-111 and 119-125: log the summary on the root span, then call
\* logSystemPrompt, whose traced callback starts a span and awaits the slug.
processPdf_Summary(f, c) ==
    /\ c.kind # "throw"
    /\ ~Falsy(SummaryOf(c))
    /\ completion' = [completion EXCEPT ![f] = c]
    /\ console' = Append(console, Line("log", "Summary Created", getPdfFiles(f).filename))
    /\ LET id == NextSpanId
           logged == [spans EXCEPT ![rootSpan[f]].output = <<SummaryOf(c).text>>,
                                   ![rootSpan[f]].logs = @ + 1]
       IN  /\ spans' = Append(logged, StartSpan(id, f, "system"))
           /\ sysSpan' = [sysSpan EXCEPT ![f] = id]
    /\ sysPc' = [sysPc EXCEPT ![f] = "await_slug"]
    /\ pc' = [pc EXCEPT ![f] = "await_system"]
    /\ ops' = [ops EXCEPT ![f] = @ \o <<"completion_resolved", "root_log", "system_span">>]
    /\ UNCHANGED err

\* The continuation of processPdf after await client.chat.completions.create.
processPdf_OnCompletion(f, c) ==
    /\ pc[f] = "await_completion"
    /\ \/ processPdf_CompletionRejected(f, c)
       \/ processPdf_NoSummary(f, c)
       \/ processPdf_Summary(f, c)
    /\ UNCHANGED <<todo, disk, diskChanges, gs, pdfData, base64String, rootSpan,
                   rootSpanSlug, request, userPc, userSpan, reads>>

---------------------------------------------------------------------------
(* logSystemPrompt and logUserPrompt *)

\* Lines 121-136, after await rootSpan: name, type and link the span, log the
\* system prompt and the summary; the callback returns and the span ends.
logSystemPrompt_Body(f) ==
    /\ sysPc[f] = "await_slug"
    /\ AwaitSlug(f)
    /\ spans' = [spans EXCEPT
                    ![sysSpan[f]].name = "system_prompt",
                    ![sysSpan[f]].type = "llm",
                    ![sysSpan[f]].parent = SlugToString(SlugFor(f)),
                    ![sysSpan[f]].input = <<[role |-> "system", text |-> SYSTEM_PROMPT]>>,
                    ![sysSpan[f]].output = <<SummaryOf(completion[f]).text>>,
                    ![sysSpan[f]].logs = @ + 1,
                    ![sysSpan[f]].ended = TRUE]
    /\ sysPc' = [sysPc EXCEPT ![f] = "done"]
    /\ ops' = [ops EXCEPT ![f] = @ \o <<"system_attrs", "system_log", "system_end">>]
    /\ UNCHANGED <<todo, disk, diskChanges, gs, console, pc, pdfData, base64String,
                   rootSpan, rootSpanSlug, request, completion, err, userPc, sysSpan,
                   userSpan, reads>>

\* Lines 113-114 and 140-147: once logSystemPrompt has finished, processPdf calls
\* logUserPrompt, whose traced callback starts a span and awaits the slug.
processPdf_LogUserPrompt(f) ==
    /\ pc[f] = "await_system"
    /\ AwaitSystemPrompt(f)
    /\ spans' = Append(spans, StartSpan(NextSpanId, f, "user"))
    /\ userSpan' = [userSpan EXCEPT ![f] = NextSpanId]
    /\ userPc' = [userPc EXCEPT ![f] = "await_slug"]
    /\ pc' = [pc EXCEPT ![f] = "await_user"]
    /\ ops' = [ops EXCEPT ![f] = Append(@, "user_span")]
    /\ UNCHANGED <<todo, disk, diskChanges, gs, console, pdfData, base64String,
                   rootSpan, rootSpanSlug, request, completion, err, sysPc, sysSpan, reads>>

\* Lines 142-172, after await rootSpan: name, type and link the span, read the
\* file again for the attachment and log the payload.  A failed read throws out of
\* the callback, logUserPrompt and processPdf: both spans end, nothing is logged.
logUserPrompt_Body(f) ==
    /\ userPc[f] = "await_slug"
    /\ AwaitSlug(f)
    /\ LET file == ReadFileSync(f)
           filename == getPdfFiles(f).filename
           attrs == [spans EXCEPT
                        ![userSpan[f]].name = "user_prompt",
                        ![userSpan[f]].type = "llm",
                        ![userSpan[f]].parent = SlugToString(SlugFor(f))]
       IN  /\ reads' = [reads EXCEPT ![f] = Append(@, disk[f])]
           /\ IF ~file.ok
              THEN /\ spans' = EndSpan(EndSpan(attrs, userSpan[f]), rootSpan[f])
                   /\ userPc' = [userPc EXCEPT ![f] = "threw"]
                   /\ pc' = [pc EXCEPT ![f] = "threw"]
                   /\ err' = [err EXCEPT ![f] = [kind |-> file.error, response |-> FALSE]]
                   /\ ops' = [ops EXCEPT ![f] = @ \o <<"user_attrs", ReadEvent(f)>>]
              ELSE /\ spans' = [attrs EXCEPT
                                  ![userSpan[f]].input =
                                      << [role |-> "user", text |-> userPrompt],
                                         [role |-> "user",
                                          attachment |-> Attachment(file.data, filename)] >>,
                                  ![userSpan[f]].output = <<SummaryOf(completion[f]).text>>,
                                  ![userSpan[f]].metadata =
                                      << [filename |-> filename,
                                          url |-> getPdfFiles(f).url,
                                          base64String |-> base64String[f]] >>,
                                  ![userSpan[f]].logs = @ + 1,
                                  ![userSpan[f]].ended = TRUE]
                   /\ userPc' = [userPc EXCEPT ![f] = "done"]
                   /\ ops' = [ops EXCEPT ![f] =
                                @ \o <<"user_attrs", ReadEvent(f), "user_log", "user_end">>]
                   /\ UNCHANGED <<pc, err>>
    /\ UNCHANGED <<todo, disk, diskChanges, gs, console, pdfData, base64String,
                   rootSpan, rootSpanSlug, request, completion, sysPc, sysSpan, userSpan>>

\* Lines 114-116: logUserPrompt has finished; processPdf returns, the root span ends.
processPdf_Return(f) ==
    /\ pc[f] = "await_user"
    /\ userPc[f] = "done"
    /\ spans' = EndSpan(spans, rootSpan[f])
    /\ pc' = [pc EXCEPT ![f] = "returned"]
    /\ ops' = [ops EXCEPT ![f] = Append(@, "return")]
    /\ UNCHANGED <<todo, disk, diskChanges, gs, console, pdfData, base64String,
                   rootSpan, rootSpanSlug, request, completion, err, sysPc, userPc,
                   sysSpan, userSpan, reads>>

---------------------------------------------------------------------------
(* generateSummary *)

\* Lines 177-185: list the files, log their number, enter the try block.
generateSummary_Start ==
    /\ gs = "init"
    /\ gs' = "awaiting"
    /\ console' = Append(console, Line("log", "Found PDFs to process", ""))
    /\ UNCHANGED <<todo, disk, diskChanges, spans, pc, pdfData, base64String, rootSpan,
                   rootSpanSlug, request, completion, err, sysPc, userPc, sysSpan,
                   userSpan, ops, reads>>

\* A catch block that logs the error and throws it again.
generateSummary_CatchRethrow ==
    /\ gs = "awaiting"
    /\ \E f \in todo :
          /\ pc[f] = "threw"
          /\ console' = console \o CatchLines(err[f])
    /\ gs' = "escaped"
    /\ UNCHANGED <<todo, disk, diskChanges, spans, pc, pdfData, base64String, rootSpan,
                   rootSpanSlug, request, completion, err, sysPc, userPc, sysSpan,
                   userSpan, ops, reads>>

\* Lines 186-191: an awaited processPdf rejected; log the error, and its response
\* payload if it has one, and fall through to the end of generateSummary.
generateSummary_Catch ==
    /\ gs = "awaiting"
    /\ \E f \in todo :
          /\ pc[f] = "threw"
          /\ console' = console \o CatchLines(err[f])
    /\ gs' = "done"
    /\ UNCHANGED <<todo, disk, diskChanges, spans, pc, pdfData, base64String, rootSpan,
                   rootSpanSlug, request, completion, err, sysPc, userPc, sysSpan,
                   userSpan, ops, reads>>

\* Lines 185, 192: every awaited processPdf returned; generateSummary returns.
generateSummary_Return ==
    /\ gs = "awaiting"
    /\ \A f \in todo : pc[f] = "returned"
    /\ gs' = "done"
    /\ UNCHANGED <<todo, disk, diskChanges, console, spans, pc, pdfData, base64String,
                   rootSpan, rootSpanSlug, request, completion, err, sysPc, userPc,
                   sysSpan, userSpan, ops, reads>>

---------------------------------------------------------------------------
(* The environment: another process rewrites, removes or locks a file while the *)
(* run is under way.                                                            *)

DiskChange(f, s) ==
    /\ gs = "awaiting"
    /\ pc[f] \notin {"returned", "threw"}
    /\ diskChanges < MaxDiskChanges
    /\ s # disk[f]
    /\ disk' = [disk EXCEPT ![f] = s]
    /\ diskChanges' = diskChanges + 1
    /\ UNCHANGED <<todo, gs, console, spans, pc, pdfData, base64String, rootSpan,
                   rootSpanSlug, request, completion, err, sysPc, userPc, sysSpan,
                   userSpan, ops, reads>>

---------------------------------------------------------------------------
(* Specifications. *)

ProgramStep ==
    \/ generateSummary_Start
    \/ \E f \in todo : processPdf_Start(f)
    \/ \E f \in todo : export_Resolves(f)
    \/ \E f \in todo : \E c \in Settlements : processPdf_OnCompletion(f, c)
    \/ \E f \in todo : logSystemPrompt_Body(f)
    \/ \E f \in todo : processPdf_LogUserPrompt(f)
    \/ \E f \in todo : logUserPrompt_Body(f)
    \/ \E f \in todo : processPdf_Return(f)
    \/ generateSummary_Catch
    \/ generateSummary_Return

Next ==
    \/ ProgramStep
    \/ \E f \in todo : \E s \in FileStates : DiskChange(f, s)

Spec == Init /\ [][Next]_vars

\* The loop of lines 182-184 (for (const pdfFile of pdfFiles) await processPdf(pdfFile)),
\* over the first NFiles manifest entries.  The invocations may interleave at their
\* awaits, as they would if started together; one after another is one of the
\* interleavings.
InitLoop ==
    /\ todo = 1..NFiles
    /\ disk \in [todo -> {[status |-> "ok", bytes |-> <<37>>], [status |-> "ENOENT", bytes |-> <<>>]}]
    /\ InitLocals

\* The files stay as they are while the loop runs.
SpecLoop == InitLoop /\ [][ProgramStep]_vars

\* The event loop runs every continuation that is ready, and the completion call
\* and export() settle: a program step that stays possible is eventually taken.
FairSpec == Spec /\ WF_vars(ProgramStep)

---------------------------------------------------------------------------
(* Vocabulary of the properties. *)

SpanIds == 1..Len(spans)

SpansOf(f) == {i \in SpanIds : spans[i].owner = f}

ChildrenOf(f) == {i \in SpansOf(f) : spans[i].role # "root"}

\* Position of the first e in the history o, 0 if there is none.
Pos(o, e) ==
    IF \E i \in 1..Len(o) : o[i] = e
    THEN CHOOSE i \in 1..Len(o) : o[i] = e /\ \A j \in 1..(i - 1) : o[j] # e
    ELSE 0

\* If b has happened, a has happened before it.
Before(o, a, b) == Pos(o, b) > 0 => (Pos(o, a) > 0 /\ Pos(o, a) < Pos(o, b))

Count(o, E) == Cardinality({i \in 1..Len(o) : o[i] \in E})

Logged(text, arg) == \E i \in 1..Len(console) : console[i].text = text /\ console[i].arg = arg

\* The identifier string export() of span id resolves to.
ExportedId(id) == [kind |-> "slug", id |-> id]

\* A base64 decoder, written from RFC 4648; <<256>> for text that is not base64.
Sextet(c) == CHOOSE v \in 0..63 : Base64Alphabet[v + 1] = c

IsBase64Char(c) == \E v \in 0..63 : Base64Alphabet[v + 1] = c

RECURSIVE Base64Decode(_)
Base64Decode(t) ==
    IF Len(t) = 0 THEN <<>>
    ELSE IF Len(t) < 4 \/ ~IsBase64Char(t[1]) \/ ~IsBase64Char(t[2]) THEN <<256>>
    ELSE IF t[3] = "=" THEN
        IF t[4] = "=" /\ Len(t) = 4 /\ Sextet(t[2]) % 16 = 0
        THEN << Sextet(t[1]) * 4 + Sextet(t[2]) \div 16 >>
        ELSE <<256>>
    ELSE IF ~IsBase64Char(t[3]) THEN <<256>>
    ELSE IF t[4] = "=" THEN
        IF Len(t) = 4 /\ Sextet(t[3]) % 4 = 0
        THEN << Sextet(t[1]) * 4 + Sextet(t[2]) \div 16,
                (Sextet(t[2]) % 16) * 16 + Sextet(t[3]) \div 4 >>
        ELSE <<256>>
    ELSE IF ~IsBase64Char(t[4]) THEN <<256>>
    ELSE << Sextet(t[1]) * 4 + Sextet(t[2]) \div 16,
            (Sextet(t[2]) % 16) * 16 + Sextet(t[3]) \div 4,
            (Sextet(t[3]) % 4) * 64 + Sextet(t[4]) >> \o Base64Decode(SubSeq(t, 5, Len(t)))

\* The completion service returned no content: no first choice, null or "".
NoContent(c) == c.kind \in {"null", "nochoice"} \/ (c.kind = "content" /\ c.text = "")

\* What is in flight for processPdf(f): started and not yet finished.
InFlight(f) ==
    (IF rootSpanSlug[f].state = "pending" THEN {"export"} ELSE {})
    \cup (IF request[f] # <<>> /\ completion[f].kind \in {"pending"} /\ pc[f] = "await_completion"
          THEN {"completion"} ELSE {})
    \cup (IF sysSpan[f] # 0 /\ ~spans[sysSpan[f]].ended THEN {"system_prompt"} ELSE {})
    \cup (IF userSpan[f] # 0 /\ ~spans[userSpan[f]].ended THEN {"user_prompt"} ELSE {})

---------------------------------------------------------------------------
(* Properties. *)

\* C1 (linkage ordering): every child span is created after export() of the root
\* span was invoked; a child's parent is never the pending promise; and when a
\* child's parent is set, the promise has resolved and the parent is the
\* identifier string of the root span of the same invocation.
C1_LinkageOrdering ==
    \A i \in SpanIds :
        LET s == spans[i]
            f == s.owner
        IN  s.role # "root" =>
              /\ rootSpanSlug[f].state # "none"
              /\ Before(ops[f], "export", "system_span")
              /\ Before(ops[f], "export", "user_span")
              /\ Before(ops[f], "export", "system_attrs")
              /\ Before(ops[f], "export", "user_attrs")
              /\ s.parent.kind # "promise"
              /\ s.parent # NoParent =>
                    /\ rootSpanSlug[f].state = "resolved"
                    /\ s.parent = ExportedId(rootSpanSlug[f].id)
                    /\ rootSpanSlug[f].id = rootSpan[f]

\* C1's case: both children of a file are linked.
C1_Witness ==
    \E f \in todo :
        /\ sysSpan[f] # 0 /\ spans[sysSpan[f]].parent.kind = "slug"
        /\ userSpan[f] # 0 /\ spans[userSpan[f]].parent.kind = "slug"

\* C2 (span tree of a successful run): when processPdf(f) has finished after a
\* successful first read and a completion with non-empty text, f has exactly three
\* spans: one root, named after the file, with no parent and the completion text as
\* output; one named system_prompt and one named user_prompt, each with the root's
\* exported identifier as parent.
C2_SpanTree ==
    \A f \in todo :
        ( /\ pc[f] \in {"returned", "threw"}
          /\ reads[f] # <<>> /\ reads[f][1].status = "ok"
          /\ completion[f].kind = "content" /\ completion[f].text # "" )
        =>
        LET mine == SpansOf(f)
            roots == {i \in mine : spans[i].parent = NoParent}
            named(n) == {i \in mine : spans[i].name = n}
        IN  /\ Cardinality(mine) = 3
            /\ Cardinality(roots) = 1
            /\ \A r \in roots :
                  /\ spans[r].name = pdfFiles[f].filename
                  /\ spans[r].output = <<completion[f].text>>
                  /\ Cardinality(named("system_prompt")) = 1
                  /\ Cardinality(named("user_prompt")) = 1
                  /\ \A i \in named("system_prompt") \cup named("user_prompt") :
                        spans[i].parent = ExportedId(r)
                  /\ mine = roots \cup named("system_prompt") \cup named("user_prompt")

\* C2's case: a run that went through to the end of processPdf.
C2_Witness ==
    \E f \in todo :
        /\ pc[f] = "returned"
        /\ completion[f].kind = "content" /\ completion[f].text # ""
        /\ gs = "done"

\* C3 (empty-completion short-circuit): when the completion holds no content
\* (no first choice, null, or the empty string), processPdf warns and returns:
\* it has no error, nothing was logged as an error, it has no child span and its
\* root span has no output and no log call.
C3_EmptyCompletion ==
    \A f \in todo :
        NoContent(completion[f]) =>
            /\ pc[f] = "returned"
            /\ err[f] = NoError
            /\ Logged("No summary generated", pdfFiles[f].filename)
            /\ \A i \in 1..Len(console) : console[i].level # "error"
            /\ gs # "escaped"
            /\ ChildrenOf(f) = {}
            /\ sysPc[f] = "none" /\ userPc[f] = "none"
            /\ spans[rootSpan[f]].output = <<>>
            /\ spans[rootSpan[f]].logs = 0

\* C3's case: the completion's first choice holds the empty string, and the run is over.
C3_Witness ==
    \E f \in todo :
        /\ completion[f].kind = "content" /\ completion[f].text = ""
        /\ gs = "done"

\* C4 (upstream failure): when the completion call rejects, processPdf rejects
\* with that error, it has no child span and its root span has no output; once
\* generateSummary is done the error has been logged, with its response payload
\* exactly when it has one, and nothing of processPdf ran after the rejection.
C4_UpstreamFailure ==
    \A f \in todo :
        completion[f].kind = "throw" =>
            /\ pc[f] = "threw"
            /\ err[f] = [kind |-> "upstream", response |-> completion[f].response]
            /\ ChildrenOf(f) = {}
            /\ sysPc[f] = "none" /\ userPc[f] = "none"
            /\ spans[rootSpan[f]].output = <<>>
            /\ spans[rootSpan[f]].logs = 0
            /\ ops[f][Len(ops[f])] = "completion_rejected"
            /\ gs \in {"awaiting", "done"}
            /\ gs = "done" =>
                  /\ Logged("Error in main:", "upstream")
                  /\ completion[f].response <=> Logged("Response data:", "upstream")

\* C4's case: a rejection that carries a response payload has been caught.
C4_Witness ==
    \E f \in todo :
        /\ completion[f].kind = "throw" /\ completion[f].response
        /\ gs = "done"

\* The payload of the user_prompt span of f, as far as it does not depend on the
\* second read: the metadata names the file and its manifest url and holds the
\* base64 text whose decoding is the bytes first read and whose data URL was sent
\* to the completion service; the input's second item is a PDF attachment.
UserPayloadBase(f) ==
    LET s == spans[userSpan[f]]
    IN  /\ Len(s.metadata) = 1
        /\ s.metadata[1].filename = pdfFiles[f].filename
        /\ s.metadata[1].url = pdfFiles[f].url
        /\ Base64Decode(s.metadata[1].base64String) = reads[f][1].bytes
        /\ request[f][1].file_data = <<"data:application/pdf;base64,">> \o s.metadata[1].base64String
        /\ Len(s.input) = 2
        /\ s.input[2].attachment.contentType = "application/pdf"
        /\ s.input[2].attachment.filename = pdfFiles[f].filename

UserLogged(f) == userSpan[f] # 0 /\ spans[userSpan[f]].logs > 0

StepOrder(f) ==
    /\ Before(ops[f], "read_ok", "request")
    /\ Before(ops[f], "request", "completion_resolved")
    /\ Before(ops[f], "completion_resolved", "root_log")
    /\ Before(ops[f], "root_log", "system_span")
    /\ Before(ops[f], "system_span", "system_log")
    /\ Before(ops[f], "system_log", "system_end")
    /\ Before(ops[f], "system_end", "user_span")
    /\ Before(ops[f], "user_span", "user_log")
    /\ userSpan[f] # 0 => (spans[sysSpan[f]].ended /\ spans[sysSpan[f]].logs = 1)

\* C6 as claimed (sequential orchestration): the steps occur in order, the
\* system_prompt span is complete before the user_prompt span is created, and at
\* no point are two operations in flight at the same time.
C6_Original ==
    \A f \in todo : StepOrder(f) /\ Cardinality(InFlight(f)) <= 1

\* C6 as amended: the steps occur in order and the system_prompt span is complete
\* before the user_prompt span is created; of the completion request and the two
\* child spans at most one is in flight at a time.  The export of the root
\* identifier, started before the completion request and awaited only inside the
\* child spans, may be in flight together with one of them.
C6_SequentialOrchestration ==
    \A f \in todo : StepOrder(f) /\ Cardinality(InFlight(f) \ {"export"}) <= 1

\* C6's case: the user_prompt span has been created and logged.
C6_Witness ==
    \E f \in todo : Pos(ops[f], "user_log") > 0

\* C7 (file-read failure is terminal): when a read of the file failed, it is the
\* last read and the last operation of processPdf, which has rejected with the
\* read's error; the request, the spans and the logs are as the read found them;
\* once generateSummary is done the error has been logged.
C7_ReadFailureTerminal ==
    \A f \in todo :
        \A i \in 1..Len(reads[f]) :
            reads[f][i].status # "ok" =>
                /\ i = Len(reads[f])
                /\ Count(ops[f], {"read_fail"}) = 1
                /\ ops[f][Len(ops[f])] = "read_fail"
                /\ pc[f] = "threw"
                /\ err[f] = [kind |-> reads[f][i].status, response |-> FALSE]
                /\ i = 1 => (request[f] = <<>> /\ Cardinality(SpansOf(f)) = 1
                              /\ \A j \in SpansOf(f) : spans[j].logs = 0)
                /\ i = 2 => spans[userSpan[f]].logs = 0
                /\ gs \in {"awaiting", "done"}
                /\ gs = "done" => Logged("Error in main:", reads[f][i].status)


\* C7's case: the second read, inside the user_prompt span, failed and the run is over.
C7_Witness ==
    \E f \in todo :
        /\ Len(reads[f]) = 2
        /\ reads[f][2].status # "ok"
        /\ gs = "done"

\* What processPdf(f) does at most once: the completion request, the export, each
\* span's creation and each span's log call; and a read that failed is not made again.
OnceEach(f) ==
    /\ Count(ops[f], {"request"}) <= 1
    /\ Count(ops[f], {"completion_resolved", "completion_rejected"}) <= 1
    /\ Count(ops[f], {"export"}) <= 1
    /\ \A e \in {"root_span", "system_span", "user_span",
                 "root_log", "system_log", "user_log"} : Count(ops[f], {e}) <= 1
    /\ \A r \in {"root", "system", "user"} :
          Cardinality({i \in SpansOf(f) : spans[i].role = r}) <= 1
    /\ \A i \in SpansOf(f) : spans[i].logs <= 1
    /\ Count(ops[f], {"read_fail"}) <= 1
    /\ \A i \in 1..Len(ops[f]) : ops[f][i] = "read_fail" => i = Len(ops[f])

\* C8 as claimed (exactly-once operations): the file is read once, the completion
\* is requested once, the root identifier is exported once, each span is created
\* once and logged at most once.
C8_Original ==
    \A f \in todo :
        /\ OnceEach(f)
        /\ Count(ops[f], {"read_ok", "read_fail"}) <= 1

\* C8 as amended: the completion is requested once, the root identifier is
\* exported once, each span is created once and logged at most once, and no
\* operation is attempted again after it failed; the file is read at most twice,
\* once at the start of processPdf and once more inside the user_prompt span.
C8_ExactlyOnce ==
    \A f \in todo :
        /\ OnceEach(f)
        /\ Count(ops[f], {"read_ok", "read_fail"}) <= 2
        /\ Count(ops[f], {"read_ok", "read_fail"}) = Len(reads[f])
        /\ Len(reads[f]) = 2 => Pos(ops[f], "user_attrs") > 0
        /\ pc[f] # "idle" => Count(ops[f], {"read_ok", "read_fail"}) >= 1
        /\ pc[f] \notin {"idle"} /\ reads[f][1].status = "ok" =>
              (Count(ops[f], {"request"}) = 1 /\ Count(ops[f], {"export"}) = 1)

\* C8's case: a run that went through, with both reads made.
C8_Witness ==
    \E f \in todo : pc[f] = "returned" /\ Len(reads[f]) = 2

\* C9 (per-file isolation): when processPdf runs for several files, every child
\* span that has a parent has the exported identifier of the root span that the
\* same file's invocation created.
C9_PerFileIsolation ==
    \A i \in SpanIds :
        (spans[i].role # "root" /\ spans[i].parent # NoParent) =>
            /\ spans[i].parent.kind = "slug"
            /\ spans[i].parent.id \in SpanIds
            /\ spans[spans[i].parent.id].role = "root"
            /\ spans[spans[i].parent.id].owner = spans[i].owner
            /\ spans[i].parent.id = rootSpan[spans[i].owner]

\* C9's case: two invocations run interleaved (the second root span is created
\* before the first invocation's children) and both have linked their children.
C9_Witness ==
    \E f, g \in todo :
        /\ f # g
        /\ rootSpan[f] # 0 /\ rootSpan[g] # 0
        /\ rootSpan[f] < rootSpan[g]
        /\ sysSpan[f] > rootSpan[g]
        /\ spans[sysSpan[f]].parent.kind = "slug"
        /\ userSpan[g] # 0 /\ spans[userSpan[g]].parent.kind = "slug"

\* C10 (termination by fall-through): every run of generateSummary comes to its
\* end, and no error leaves generateSummary.
C10_Termination == <>[](gs = "done") /\ [](gs # "escaped")

\* C10's case: an error thrown inside a child span has been caught and the run is over.
C10_Witness ==
    \E f \in todo : userPc[f] = "threw" /\ gs = "done" /\ Logged("Error in main:", err[f].kind)

===========================================================================
